---- MODULE Spec2Model ----
(***************************************************************************)
(* Model of app/tool/web_search.py: the WebSearch tool.                    *)
(*                                                                         *)
(* One execute request is followed from its call to its return.  The      *)
(* atomic steps are the stretches of code between two awaits: the engine  *)
(* call offloaded to the executor, the backoff sleep of the tenacity      *)
(* retry decorator and the asyncio.sleep of the outer retry loop.         *)
(***************************************************************************)
EXTENDS Integers, Sequences, FiniteSets, TLC

(* ---------------------------- bounds ----------------------------------- *)

MaxRetriesBound == 1      \* max_retries is drawn from 0..MaxRetriesBound
MaxFallbacks == 2         \* longest configured fallback_engines list
MaxLinks == 2             \* longest list of links an engine returns

(* ----------------------- program constants ----------------------------- *)

DefaultRetryDelay == 60
DefaultMaxRetries == 3
StopAfterAttempt == 3
WaitMultiplier == 1
WaitMin == 1
WaitMax == 10

(* -------------------------- input domains ------------------------------ *)

\* Engine identifiers as they may be written in the configuration.
ConfigNames == {"Bing", "bing", "baidu", "yahoo"}

\* Values of search_config.retry_delay.
RetryDelays == {5}

\* Values of the num_results argument.
NumResultsValues == {2}

Queries == {"rust ownership"}

\* Links an engine may return.
Urls == {"https://example.com/page", "not a url", "http://[::1"}

RECURSIVE SeqsUpTo(_, _)
SeqsUpTo(S, n) ==
    IF n = 0 THEN {<<>>}
    ELSE LET shorter == SeqsUpTo(S, n - 1)
         IN  shorter \cup {Append(s, e) : s \in shorter, e \in S}

(* ------------------------------ registry ------------------------------- *)

\* WebSearch._search_engine, in insertion order.
SearchEngineKeys == <<"google", "baidu", "duckduckgo", "bing">>

_search_engine == {SearchEngineKeys[i] : i \in 1..Len(SearchEngineKeys)}

(* ------------------------------ helpers -------------------------------- *)

\* str.lower() on the identifiers of the model.
lower(s) ==
    CASE s = "Bing" -> "bing"
      [] OTHER -> s

Contains(seq, e) == \E i \in 1..Len(seq) : seq[i] = e

RECURSIVE LowerAll(_)
LowerAll(seq) ==
    IF seq = <<>> THEN <<>>
    ELSE <<lower(Head(seq))>> \o LowerAll(Tail(seq))

Min(a, b) == IF a < b THEN a ELSE b
Max(a, b) == IF a > b THEN a ELSE b

RECURSIVE Pow(_, _)
Pow(b, e) == IF e = 0 THEN 1 ELSE b * Pow(b, e - 1)

(* ---------------------------- configuration ---------------------------- *)

\* config.search_config: absent, or a record of its four fields.  An unset
\* engine is the empty string, an unset fallback list the empty list.
NoSearchConfig ==
    [present |-> FALSE, engine |-> "", fallback_engines |-> <<>>,
     retry_delay |-> DefaultRetryDelay, max_retries |-> DefaultMaxRetries]

SearchConfigs ==
    {NoSearchConfig} \cup
    [present : {TRUE},
     engine : {""} \cup ConfigNames,
     fallback_engines : SeqsUpTo(ConfigNames, MaxFallbacks),
     retry_delay : RetryDelays,
     max_retries : 0..MaxRetriesBound]

(* ------------------------- _get_engine_order --------------------------- *)

\* Lines 173-182: the preferred identifier and the fallback identifiers,
\* defaulted and lower-cased.
Preferred(cfg) ==
    IF cfg.present /\ cfg.engine # "" THEN lower(cfg.engine) ELSE "google"

Fallbacks(cfg) ==
    IF cfg.present /\ cfg.fallback_engines # <<>>
    THEN LowerAll(cfg.fallback_engines)
    ELSE <<>>

\* Variant of AddFallbacks without the "not in engine_order" test.
RECURSIVE AddFallbacks_NoDedup(_, _)
AddFallbacks_NoDedup(engine_order, fallbacks) ==
    IF fallbacks = <<>> THEN engine_order
    ELSE LET fallback == Head(fallbacks)
         IN  IF fallback \in _search_engine
             THEN AddFallbacks_NoDedup(Append(engine_order, fallback),
                                       Tail(fallbacks))
             ELSE AddFallbacks_NoDedup(engine_order, Tail(fallbacks))

\* Lines 190-192: the loop over the fallbacks, engine_order being the
\* list built so far.
RECURSIVE AddFallbacks(_, _)
AddFallbacks(engine_order, fallbacks) ==
    IF fallbacks = <<>> THEN engine_order
    ELSE LET fallback == Head(fallbacks)
         IN  IF fallback \in _search_engine /\ ~Contains(engine_order, fallback)
             THEN AddFallbacks(Append(engine_order, fallback), Tail(fallbacks))
             ELSE AddFallbacks(engine_order, Tail(fallbacks))

\* Variant of _get_engine_order that adds the preferred engine after the
\* fallbacks.
_get_engine_order_PreferredLast(cfg) ==
    LET preferred == Preferred(cfg)
        first == AddFallbacks(<<>>, Fallbacks(cfg))
    IN  IF preferred \in _search_engine /\ ~Contains(first, preferred)
        THEN Append(first, preferred)
        ELSE first

\* Variant of _get_engine_order that goes on with the remaining engines
\* of the registry, as its docstring describes.
_get_engine_order_WithRemaining(cfg) ==
    LET preferred == Preferred(cfg)
        first == IF preferred \in _search_engine THEN <<preferred>> ELSE <<>>
    IN  AddFallbacks(AddFallbacks(first, Fallbacks(cfg)), SearchEngineKeys)

\* Lines 184-194
_get_engine_order(cfg) ==
    LET preferred == Preferred(cfg)
        first == IF preferred \in _search_engine THEN <<preferred>> ELSE <<>>
    IN  AddFallbacks(first, Fallbacks(cfg))

(* ----------------------- retry decorator policy ------------------------ *)

\* Variant of wait_exponential whose exponent is the attempt number.
wait_exponential_FromTwo(attempt_number) ==
    Max(Max(0, WaitMin), Min(WaitMultiplier * Pow(2, attempt_number), WaitMax))

\* wait_exponential(multiplier=1, min=1, max=10): the sleep after the
\* failed attempt number attempt_number.
wait_exponential(attempt_number) ==
    Max(Max(0, WaitMin), Min(WaitMultiplier * Pow(2, attempt_number - 1), WaitMax))

\* Variant of stop_after_attempt that stops one attempt later.
stop_after_attempt_OffByOne(attempt_number) == attempt_number > StopAfterAttempt

\* stop_after_attempt(3)
stop_after_attempt(attempt_number) == attempt_number >= StopAfterAttempt

(* --------------------------- normalization ----------------------------- *)

\* urlparse(link): raises ValueError on an unbalanced bracket in the
\* authority, otherwise never fails.
urlparse_raises(link) == link = "http://[::1"

\* urlparse(link).netloc: what lies between "//" and the next "/".
netloc(link) ==
    CASE link = "https://example.com/page" -> "example.com"
      [] OTHER -> ""

\* Variant of StructuredResult that numbers the titles from 0.
StructuredResult_ZeroBased(n, link) ==
    IF urlparse_raises(link)
    THEN [title |-> "Result " \o ToString(n - 1),
          url |-> link,
          domain |-> "unknown",
          snippet |-> "No description available",
          favicon |-> ""]
    ELSE LET domain == netloc(link)
         IN  [title |-> "Result " \o ToString(n - 1),
              url |-> link,
              domain |-> domain,
              snippet |-> "Found at " \o domain,
              favicon |-> "https://www.google.com/s2/favicons?domain=" \o domain]

\* Lines 116-137: the entry of the link at 1-based position n.
StructuredResult(n, link) ==
    IF urlparse_raises(link)
    THEN [title |-> "Result " \o ToString(n),
          url |-> link,
          domain |-> "unknown",
          snippet |-> "No description available",
          favicon |-> ""]
    ELSE LET domain == netloc(link)
         IN  [title |-> "Result " \o ToString(n),
              url |-> link,
              domain |-> domain,
              snippet |-> "Found at " \o domain,
              favicon |-> "https://www.google.com/s2/favicons?domain=" \o domain]

\* Lines 113-137
StructuredResults(links) ==
    [n \in 1..Len(links) |-> StructuredResult(n, links[n])]

\* Line 140
RECURSIVE ResultText(_, _)
ResultText(links, n) ==
    IF n > Len(links) THEN ""
    ELSE ToString(n) \o ". " \o links[n]
         \o (IF n < Len(links) THEN "\n" ELSE "")
         \o ResultText(links, n + 1)

\* Variant of SuccessResult that does not record the engine.
SuccessResult_NoEngine(query, engine_name, links) ==
    [output |-> "Search results for '" \o query \o "':\n" \o ResultText(links, 1),
     structured_data |->
        [query |-> query,
         results |-> StructuredResults(links),
         display_type |-> "search_results"]]

\* Lines 142-150: the ToolResult of a successful engine.
SuccessResult(query, engine_name, links) ==
    [output |-> "Search results for '" \o query \o "':\n" \o ResultText(links, 1),
     structured_data |->
        [query |-> query,
         engine |-> engine_name,
         results |-> StructuredResults(links),
         display_type |-> "search_results"]]

\* Lines 155-162: the ToolResult when no engine produced links.
EmptyResult(query) ==
    [output |-> "No search results found for '" \o query \o "'.",
     structured_data |->
        [query |-> query,
         results |-> <<>>,
         display_type |-> "search_results"]]

\* Variant of HasLinks that asks for more than one link.
HasLinks_MoreThanOne(found) == Len(found) > 1

\* Line 111: "if links:" on the list returned by the engine.
HasLinks(found) == found # <<>>

\* Truth value of a ToolResult in "if links:" (line 74).  ToolResult is
\* defined in app/tool/base.py; an outcome counts as non-empty when it
\* carries results.
ToolResultBool(r) == r.structured_data.results # <<>>

(* ------------------------------- state --------------------------------- *)

VARIABLES
    config,          \* config.search_config
    query,           \* argument of execute
    num_results,     \* argument of execute
    pc,              \* position of the request: "idle", "loop", "engine",
                     \*   "call", "backoff", "sleep", "done", "cancelled"
    retry_delay,     \* local of execute
    max_retries,     \* local of execute
    retry_count,     \* loop variable of execute
    engine_order,    \* local of _try_all_engines
    idx,             \* 1-based position of engine_name in engine_order
    attempt_number,  \* attempt of the retry decorator, 1-based
    links,           \* local of execute: the result of the last trial
    retval,          \* what execute returned
    nTrials,         \* history: number of calls of _try_all_engines
    trialLog,        \* history: per finished trial, "empty" or "nonempty"
    trialCalls,      \* history: the engine calls of the current trial
    invocation,      \* history: the current _perform_search_with_engine call
    winner,          \* history: the engine call that returned links
    sleeps,          \* history: the asyncio.sleep calls of execute
    cancelled,       \* history: the cancellation of the request, if any
    counting,        \* whether totalCalls is kept
    totalCalls       \* history: number of engine calls of the request

vars == <<config, query, num_results, pc, retry_delay, max_retries,
          retry_count, engine_order, idx, attempt_number, links, retval,
          nTrials, trialLog, trialCalls, invocation, winner, sleeps,
          cancelled, counting, totalCalls>>

inputs == <<config, query, num_results, counting>>
locals == <<retry_delay, max_retries>>

NoInvocation ==
    [engine |-> "", position |-> 0, calls |-> 0, delays |-> <<>>,
     status |-> "none"]
NoWinner == [engine |-> "", links |-> <<>>, trial |-> 0, position |-> 0]
NoReturn == [kind |-> "none"]
NoCancel == [requested |-> FALSE, at |-> "", calls |-> 0, trials |-> 0]

InitRequest ==
    /\ config \in SearchConfigs
    /\ query \in Queries
    /\ num_results \in NumResultsValues
    /\ pc = "idle"
    /\ retry_delay = DefaultRetryDelay
    /\ max_retries = DefaultMaxRetries
    /\ retry_count = 0
    /\ engine_order = <<>>
    /\ idx = 0
    /\ attempt_number = 0
    /\ links = NoReturn
    /\ retval = NoReturn
    /\ nTrials = 0
    /\ trialLog = <<>>
    /\ trialCalls = <<>>
    /\ invocation = NoInvocation
    /\ winner = NoWinner
    /\ sleeps = <<>>
    /\ cancelled = NoCancel
    /\ totalCalls = 0

Init == InitRequest /\ counting = FALSE

(* ------------------------------ execute -------------------------------- *)

\* Lines 62-67: the retry settings.
RetryDelaySetting(cfg) ==
    IF cfg.present THEN cfg.retry_delay ELSE DefaultRetryDelay

MaxRetriesSetting(cfg) ==
    IF cfg.present THEN cfg.max_retries ELSE DefaultMaxRetries

\* Variant of OuterAttempts without the "+ 1" of the first try.
OuterAttempts_NoFirstTry(maxRetries) == maxRetries

\* Variant of OuterAttempts with one iteration more.
OuterAttempts_OneMore(maxRetries) == maxRetries + 2

\* Lines 70-72: the number of iterations of range(max_retries + 1).
OuterAttempts(maxRetries) == maxRetries + 1

\* Variant of Execute that writes the lower-cased engine identifier back
\* to the configuration.
Execute_NormalizesConfig ==
    /\ pc = "idle"
    /\ retry_delay' = RetryDelaySetting(config)
    /\ max_retries' = MaxRetriesSetting(config)
    /\ retry_count' = 0
    /\ pc' = "loop"
    /\ config' = [config EXCEPT !.engine = lower(@)]
    /\ UNCHANGED <<query, num_results, counting, totalCalls, engine_order,
                   idx, attempt_number,
                   links, retval, nTrials, trialLog, trialCalls, invocation,
                   winner, sleeps, cancelled>>

\* Lines 48-67: execute is called and reads its settings.
Execute ==
    /\ pc = "idle"
    /\ retry_delay' = RetryDelaySetting(config)
    /\ max_retries' = MaxRetriesSetting(config)
    /\ retry_count' = 0
    /\ pc' = "loop"
    /\ UNCHANGED <<inputs, totalCalls, engine_order, idx, attempt_number, links, retval,
                   nTrials, trialLog, trialCalls, invocation, winner, sleeps,
                   cancelled>>

\* Lines 70-73 and 88, 101-102: the head of the for loop.  Either the next
\* trial starts, resolving the engine order, or the loop is over and
\* execute returns the empty list.
LoopHead ==
    /\ pc = "loop"
    /\ IF retry_count < OuterAttempts(max_retries)
       THEN /\ engine_order' = _get_engine_order(config)
            /\ idx' = 1
            /\ nTrials' = nTrials + 1
            /\ trialCalls' = <<>>
            /\ pc' = "engine"
            /\ UNCHANGED retval
       ELSE /\ retval' = [kind |-> "list", value |-> <<>>]
            /\ pc' = "done"
            /\ UNCHANGED <<engine_order, idx, nTrials, trialCalls>>
    /\ UNCHANGED <<inputs, totalCalls, locals, retry_count, attempt_number, links,
                   trialLog, invocation, winner, sleeps,
                   cancelled>>

\* Variant of AfterTrial that also sleeps after the last attempt.
AfterTrial_SleepAfterLast(result) ==
    /\ links' = [kind |-> "ToolResult", value |-> result]
    /\ trialLog' = Append(trialLog,
                          IF result.structured_data.results = <<>>
                          THEN "empty" ELSE "nonempty")
    /\ IF ToolResultBool(result)
       THEN /\ retval' = [kind |-> "ToolResult", value |-> result]
            /\ pc' = "done"
            /\ UNCHANGED retry_count
       ELSE /\ pc' = "sleep"
            /\ UNCHANGED <<retval, retry_count>>

\* Lines 74-86: execute receives the result of a trial.
AfterTrial(result) ==
    /\ links' = [kind |-> "ToolResult", value |-> result]
    /\ trialLog' = Append(trialLog,
                          IF result.structured_data.results = <<>>
                          THEN "empty" ELSE "nonempty")
    /\ IF ToolResultBool(result)
       THEN /\ retval' = [kind |-> "ToolResult", value |-> result]
            /\ pc' = "done"
            /\ UNCHANGED retry_count
       ELSE IF retry_count < max_retries
            THEN /\ pc' = "sleep"
                 /\ UNCHANGED <<retval, retry_count>>
            ELSE /\ retry_count' = retry_count + 1
                 /\ pc' = "loop"
                 /\ UNCHANGED retval

\* Line 82: asyncio.sleep(retry_delay) is over; the loop goes on.
Sleep ==
    /\ pc = "sleep"
    /\ sleeps' = Append(sleeps, [delay |-> retry_delay, after |-> nTrials])
    /\ retry_count' = retry_count + 1
    /\ pc' = "loop"
    /\ UNCHANGED <<inputs, totalCalls, locals, engine_order, idx, attempt_number, links,
                   retval, nTrials, trialLog, trialCalls, invocation, winner,
                   cancelled>>

(* -------------------------- _try_all_engines --------------------------- *)

\* Lines 104-110: the next engine of the order is looked up and
\* _perform_search_with_engine is called.
BeginEngine ==
    /\ pc = "engine"
    /\ idx <= Len(engine_order)
    /\ attempt_number' = 1
    /\ invocation' = [engine |-> engine_order[idx], position |-> idx,
                      calls |-> 0, delays |-> <<>>, status |-> "running"]
    /\ pc' = "call"
    /\ UNCHANGED <<inputs, totalCalls, locals, retry_count, engine_order, idx, links,
                   retval, nTrials, trialLog, trialCalls, winner, sleeps,
                   cancelled>>

\* Lines 154-162: the order is exhausted; the trial returns the empty
\* result.
TrialExhausted ==
    /\ pc = "engine"
    /\ idx > Len(engine_order)
    /\ AfterTrial(EmptyResult(query))
    /\ UNCHANGED <<inputs, totalCalls, locals, engine_order, idx, attempt_number, nTrials,
                   trialCalls, invocation, winner, sleeps,
                   cancelled>>

\* History of one engine.perform_search call.
RecordCall(result) ==
    /\ trialCalls' = Append(trialCalls,
                            [engine |-> engine_order[idx],
                             position |-> idx,
                             attempt |-> invocation.calls + 1,
                             result |-> result])
    /\ totalCalls' = IF counting THEN totalCalls + 1 ELSE totalCalls

\* Variant of EngineRaises in which the error of the last attempt is not
\* caught by the trial and leaves execute.
EngineRaises_Abort ==
    /\ pc = "call"
    /\ RecordCall("raise")
    /\ IF stop_after_attempt(attempt_number)
       THEN /\ invocation' = [invocation EXCEPT !.calls = @ + 1,
                                                 !.status = "failed"]
            /\ retval' = [kind |-> "raised"]
            /\ pc' = "done"
       ELSE /\ invocation' = [invocation EXCEPT !.calls = @ + 1]
            /\ pc' = "backoff"
            /\ UNCHANGED retval
    /\ UNCHANGED <<inputs, locals, retry_count, engine_order, idx,
                   attempt_number, links, nTrials, trialLog, winner, sleeps,
                   cancelled>>

\* Variant of EngineRaises that skips the engine after the failed one.
EngineRaises_SkipNext ==
    /\ pc = "call"
    /\ RecordCall("raise")
    /\ IF stop_after_attempt(attempt_number)
       THEN /\ invocation' = [invocation EXCEPT !.calls = @ + 1,
                                                 !.status = "failed"]
            /\ idx' = idx + 2
            /\ pc' = "engine"
       ELSE /\ invocation' = [invocation EXCEPT !.calls = @ + 1]
            /\ pc' = "backoff"
            /\ UNCHANGED idx
    /\ UNCHANGED <<inputs, locals, retry_count, engine_order, attempt_number,
                   links, retval, nTrials, trialLog, winner, sleeps,
                   cancelled>>

\* Lines 196-209 and 151-152: the engine call raises.  The decorator
\* either schedules another attempt or gives up; then the error is
\* caught by the trial, which goes on with the next engine.
EngineRaises ==
    /\ pc = "call"
    /\ RecordCall("raise")
    /\ IF stop_after_attempt(attempt_number)
       THEN /\ invocation' = [invocation EXCEPT !.calls = @ + 1,
                                                 !.status = "failed"]
            /\ idx' = idx + 1
            /\ pc' = "engine"
       ELSE /\ invocation' = [invocation EXCEPT !.calls = @ + 1]
            /\ pc' = "backoff"
            /\ UNCHANGED idx
    /\ UNCHANGED <<inputs, locals, retry_count, engine_order, attempt_number,
                   links, retval, nTrials, trialLog, winner, sleeps,
                   cancelled>>

\* The backoff sleep of the decorator is over; the next attempt starts.
Backoff ==
    /\ pc = "backoff"
    /\ invocation' = [invocation EXCEPT
                        !.delays = Append(@, wait_exponential(attempt_number))]
    /\ attempt_number' = attempt_number + 1
    /\ pc' = "call"
    /\ UNCHANGED <<inputs, totalCalls, locals, retry_count, engine_order, idx, links,
                   retval, nTrials, trialLog, trialCalls, winner, sleeps,
                   cancelled>>

\* Variant of EngineReturns in which the decorator takes an empty list for
\* a failed attempt.
EngineReturns_RetryEmpty(found) ==
    /\ pc = "call"
    /\ RecordCall(IF found = <<>> THEN "empty" ELSE "links")
    /\ winner' = IF found = <<>> THEN winner
                 ELSE [engine |-> engine_order[idx], links |-> found,
                       trial |-> nTrials, position |-> idx]
    /\ IF HasLinks(found)
       THEN /\ invocation' = [invocation EXCEPT !.calls = @ + 1,
                                                 !.status = "returned"]
            /\ AfterTrial(SuccessResult(query, engine_order[idx], found))
            /\ UNCHANGED idx
       ELSE IF stop_after_attempt(attempt_number)
            THEN /\ invocation' = [invocation EXCEPT !.calls = @ + 1,
                                                      !.status = "failed"]
                 /\ idx' = idx + 1
                 /\ pc' = "engine"
                 /\ UNCHANGED <<links, retval, retry_count, trialLog>>
            ELSE /\ invocation' = [invocation EXCEPT !.calls = @ + 1]
                 /\ pc' = "backoff"
                 /\ UNCHANGED <<idx, links, retval, retry_count, trialLog>>
    /\ UNCHANGED <<inputs, locals, engine_order, attempt_number, nTrials,
                   sleeps, cancelled>>

\* Lines 108-150: the engine call returns links.  A non-empty list ends
\* the trial with the structured result; an empty one moves on to the next
\* engine.
EngineReturns(found) ==
    /\ pc = "call"
    /\ RecordCall(IF found = <<>> THEN "empty" ELSE "links")
    /\ invocation' = [invocation EXCEPT !.calls = @ + 1,
                                         !.status = "returned"]
    /\ winner' = IF found = <<>> THEN winner
                 ELSE [engine |-> engine_order[idx], links |-> found,
                       trial |-> nTrials, position |-> idx]
    /\ IF HasLinks(found)
       THEN /\ AfterTrial(SuccessResult(query, engine_order[idx], found))
            /\ UNCHANGED idx
       ELSE /\ idx' = idx + 1
            /\ pc' = "engine"
            /\ UNCHANGED <<links, retval, retry_count, trialLog>>
    /\ UNCHANGED <<inputs, locals, engine_order, attempt_number, nTrials,
                   sleeps,
                   cancelled>>

(* ---------------------------- cancellation ---------------------------- *)

\* Variant of ExceptException that catches every exception, as a bare
\* "except:" does.
ExceptException_Bare(exc) == exc \in {"Exception", "CancelledError"}

\* Line 151: "except Exception" catches the classes derived from
\* Exception; asyncio.CancelledError derives from BaseException.
ExceptException(exc) == exc = "Exception"

\* The caller cancels the request while it is suspended at an await: the
\* offloaded engine call (line 207), the backoff sleep of the decorator or
\* asyncio.sleep (line 82).  CancelledError is raised there; inside the
\* try of lines 106-152 it passes the handler of line 151 unless that
\* catches it.
Cancel ==
    /\ pc \in {"call", "backoff", "sleep"}
    /\ ~cancelled.requested
    /\ cancelled' = [requested |-> TRUE, at |-> pc,
                     calls |-> Len(trialCalls), trials |-> nTrials]
    /\ IF pc \in {"call", "backoff"} /\ ExceptException("CancelledError")
       THEN /\ invocation' = [invocation EXCEPT !.status = "failed"]
            /\ idx' = idx + 1
            /\ pc' = "engine"
            /\ UNCHANGED retval
       ELSE /\ retval' = [kind |-> "CancelledError"]
            /\ pc' = "cancelled"
            /\ UNCHANGED <<idx, invocation>>
    /\ UNCHANGED <<inputs, totalCalls, locals, retry_count, engine_order, attempt_number,
                   links, nTrials, trialLog, trialCalls, winner, sleeps>>

(* --------------------------- specification ----------------------------- *)

Next ==
    \/ Execute
    \/ LoopHead
    \/ Sleep
    \/ BeginEngine
    \/ TrialExhausted
    \/ EngineRaises
    \/ Backoff
    \/ Cancel
    \/ \E found \in SeqsUpTo(Urls, MaxLinks) : EngineReturns(found)

Spec == Init /\ [][Next]_vars

\* The request with its engine calls counted and without cancellation.
\* The preferred engine is the default one or an unknown one.
TotalConfigs == {cfg \in SearchConfigs : cfg.engine \in {"", "yahoo"}}

InitTotal == InitRequest /\ counting = TRUE /\ config \in TotalConfigs

\* The answers of an engine that differ in length only.
TotalLinks == SeqsUpTo({"https://example.com/page"}, MaxLinks)

NextTotal ==
    \/ Execute
    \/ LoopHead
    \/ Sleep
    \/ BeginEngine
    \/ TrialExhausted
    \/ EngineRaises
    \/ Backoff
    \/ \E found \in TotalLinks : EngineReturns(found)

\* Every engine call returns or raises, every sleep ends and the event
\* loop runs the request when it is ready.
SpecTotal == InitTotal /\ [][NextTotal]_vars /\ WF_vars(NextTotal)

TypeOK ==
    /\ config \in SearchConfigs
    /\ pc \in {"idle", "loop", "engine", "call", "backoff", "sleep", "done",
              "cancelled"}
    /\ retry_count \in 0..(DefaultMaxRetries + MaxRetriesBound + 1)
    /\ links.kind \in {"none", "ToolResult"}
    /\ retval.kind \in {"none", "list", "ToolResult", "CancelledError"}

(* ------------------------------ claims --------------------------------- *)

AllTrialsEmpty == \A i \in 1..Len(trialLog) : trialLog[i] = "empty"

LastCall == trialCalls[Len(trialCalls)]

\* C1: when execute has returned, _try_all_engines was called exactly
\* max_retries + 1 times if every trial came back empty, and exactly once
\* if the first trial came back non-empty.
C1_TrialCount ==
    pc = "done" =>
        /\ AllTrialsEmpty => nTrials = MaxRetriesSetting(config) + 1
        /\ (trialLog # <<>> /\ trialLog[1] = "nonempty") => nTrials = 1

C1_Witness ==
    /\ pc = "done"
    /\ AllTrialsEmpty
    /\ config.present
    /\ MaxRetriesSetting(config) = 1
    /\ nTrials = 2
    /\ trialCalls # <<>>

\* C2: when every trial of the request came back empty, execute returns
\* the empty ToolResult of a trial (query, no results, no engine, display
\* type), not another value.
C2_EmptyOutcomeReturned ==
    (pc = "done" /\ AllTrialsEmpty) =>
        /\ retval.kind = "ToolResult"
        /\ retval.value = EmptyResult(query)

\* The structured data of a ToolResult names the engine of the winning call
\* exactly when it has results.
EngineUsedOK(r) ==
    r.kind = "ToolResult" =>
        LET sd == r.value.structured_data
        IN  IF sd.results # <<>>
            THEN /\ "engine" \in DOMAIN sd
                 /\ sd.engine = LastCall.engine
                 /\ LastCall.result = "links"
                 /\ winner.engine = sd.engine
                 /\ winner.trial = nTrials
            ELSE "engine" \notin DOMAIN sd

\* C3: every result of a trial, and every ToolResult execute returns, has
\* the engine set to the engine whose call returned the links if it has
\* results, and no engine if it has none.
C3_EngineUsed == EngineUsedOK(links) /\ EngineUsedOK(retval)

C3_Witness ==
    /\ pc = "done"
    /\ retval.kind = "ToolResult"
    /\ retval.value.structured_data.results # <<>>
    /\ retval.value.structured_data.engine = "bing"
    /\ nTrials = 2
    /\ trialLog = <<"empty", "nonempty">>

\* C4: in a trial, a call that returned a non-empty list of links is the
\* last call of the trial, and the trial has returned.
C4_FirstSuccessWins ==
    \A i \in 1..Len(trialCalls) :
        trialCalls[i].result = "links" =>
            /\ i = Len(trialCalls)
            /\ Len(trialLog) = nTrials
            /\ pc \notin {"engine", "call", "backoff"}

C4_Witness ==
    /\ trialCalls # <<>>
    /\ LastCall.result = "links"
    /\ LastCall.position = 1
    /\ Len(engine_order) >= 2
    /\ Len(winner.links) < num_results

\* The first engine of the order failed all its attempts.
FirstEngineExhausted ==
    /\ Len(trialCalls) >= StopAfterAttempt
    /\ \A i \in 1..StopAfterAttempt :
          trialCalls[i].position = 1 /\ trialCalls[i].result = "raise"

\* C5: an engine whose attempts are exhausted does not end the trial (the
\* next engine of the order is up next), and when the preferred engine
\* failed all its attempts and the fallback then returned n links, the
\* request returns n results of the fallback engine.
C5_FallbackAfterExhaustion ==
    /\ (invocation.status = "failed" /\ invocation.position < Len(engine_order))
       => /\ pc = "engine"
          /\ idx = invocation.position + 1
          /\ Len(trialLog) < nTrials
          /\ retval = NoReturn
    /\ (/\ FirstEngineExhausted
        /\ Len(trialCalls) = StopAfterAttempt + 1
        /\ LastCall.position = 2
        /\ LastCall.result = "links")
       => /\ pc = "done"
          /\ retval.kind = "ToolResult"
          /\ retval.value.structured_data.engine = engine_order[2]
          /\ Len(retval.value.structured_data.results) = Len(winner.links)

C5_Witness ==
    /\ pc = "done"
    /\ FirstEngineExhausted
    /\ Len(trialCalls) = StopAfterAttempt + 1
    /\ engine_order[1] = Preferred(config)
    /\ LastCall.engine = lower(config.fallback_engines[1])
    /\ LastCall.result = "links"
    /\ Len(winner.links) = 2
    /\ retval.kind = "ToolResult"

\* C6: an invocation of _perform_search_with_engine that ends in failure
\* has called the engine exactly 3 times, with no sleep before the first
\* attempt and sleeps of 1 and 2 before the second and the third; the
\* sleep before attempt n >= 2 is min(10, 2^(n-2)).
C6_ThreeAttemptsBackoff ==
    /\ invocation.status = "failed" =>
          invocation.calls = 3 /\ invocation.delays = <<1, 2>>
    /\ invocation.calls = 0 => invocation.delays = <<>>
    /\ pc = "call" => Len(invocation.delays) = invocation.calls
    /\ \A n \in 2..(Len(invocation.delays) + 1) :
          invocation.delays[n - 1] = Min(10, Pow(2, n - 2))

C6_Witness ==
    /\ invocation.status = "failed"
    /\ invocation.calls = 3
    /\ invocation.delays = <<1, 2>>

\* The configured fallback identifiers, lower-cased.
ConfiguredFallbacks ==
    IF config.present
    THEN [i \in 1..Len(config.fallback_engines) |->
             lower(config.fallback_engines[i])]
    ELSE <<>>

FirstIndex(seq, e) ==
    CHOOSE i \in 1..Len(seq) : seq[i] = e /\ \A j \in 1..(i - 1) : seq[j] # e

\* C7: the resolved order has no duplicates, holds only keys of the
\* registry, holds every configured fallback that is a key, and lists the
\* fallbacks in the order of their first occurrence.
C7_OrderWellFormed ==
    nTrials >= 1 =>
        /\ \A i, j \in 1..Len(engine_order) :
              engine_order[i] = engine_order[j] => i = j
        /\ \A i \in 1..Len(engine_order) : engine_order[i] \in _search_engine
        /\ \A k \in 1..Len(ConfiguredFallbacks) :
              ConfiguredFallbacks[k] \in _search_engine
                  => Contains(engine_order, ConfiguredFallbacks[k])
        /\ \A i, j \in 1..Len(engine_order) :
              (/\ i < j
               /\ engine_order[i] # Preferred(config)
               /\ engine_order[j] # Preferred(config))
              => FirstIndex(ConfiguredFallbacks, engine_order[i])
                     < FirstIndex(ConfiguredFallbacks, engine_order[j])

C7_Witness ==
    /\ nTrials >= 1
    /\ config.present
    /\ config.fallback_engines = <<"Bing", "bing">>
    /\ engine_order = <<"google", "bing">>

Configured ==
    {Preferred(config)}
        \cup {ConfiguredFallbacks[k] : k \in 1..Len(ConfiguredFallbacks)}

C10_AllKnownEnginesInOrder ==
    nTrials >= 1 => \A e \in _search_engine : Contains(engine_order, e)

\* The results of the ToolResult execute returned, and the links they were
\* made from.
Returned == retval.kind = "ToolResult" /\ retval.value.structured_data.results # <<>>

ReturnedResults == retval.value.structured_data.results

\* C11: the returned results are as many as the links of the engine, in
\* the same order; the entry of the link at 0-based position i has that
\* link as url and the title "Result " i+1; a link that parses has the
\* snippet "Found at " domain and the favicon template applied to the
\* domain, the domain of "https://example.com/page" being "example.com".
C11_NormalizationKeepsOrder ==
    Returned =>
        /\ Len(ReturnedResults) = Len(winner.links)
        /\ \A i \in 0..(Len(winner.links) - 1) :
              LET entry == ReturnedResults[i + 1]
                  link == winner.links[i + 1]
              IN  /\ entry.url = link
                  /\ entry.title = "Result " \o ToString(i + 1)
                  /\ ~urlparse_raises(link) =>
                        /\ entry.snippet = "Found at " \o entry.domain
                        /\ entry.favicon =
                              "https://www.google.com/s2/favicons?domain="
                                  \o entry.domain
                  /\ link = "https://example.com/page" =>
                        /\ entry.domain = "example.com"
                        /\ entry.snippet = "Found at example.com"

C11_Witness ==
    /\ Returned
    /\ winner.links = <<"not a url", "https://example.com/page">>
    /\ ReturnedResults[2].title = "Result 2"
    /\ ReturnedResults[2].domain = "example.com"

\* Links that are not URLs.
NotUrls == {"not a url", "http://[::1"}

C13_CancellationPropagates ==
    cancelled.requested =>
        /\ pc = "cancelled"
        /\ retval.kind = "CancelledError"
        /\ Len(trialCalls) = cancelled.calls
        /\ nTrials = cancelled.trials

C13_Witness ==
    /\ cancelled.requested
    /\ cancelled.at = "backoff"
    /\ cancelled.calls = 2
    /\ idx < Len(engine_order)
    /\ pc = "cancelled"

\* The settings of the request, read from the configuration.
ConfiguredDelay == IF config.present THEN config.retry_delay ELSE 60

ConfiguredRetries == IF config.present THEN config.max_retries ELSE 3

\* C14: every sleep of the outer loop lasts retry_delay; the i-th sleep
\* follows the i-th trial, which was empty, and comes before the next
\* trial; the request sleeps after an empty trial exactly when retries
\* remain, so there is no sleep after the last or after a non-empty trial,
\* and max_retries sleeps when all trials were empty.
C14_FixedDelayBetweenTrials ==
    /\ \A i \in 1..Len(sleeps) :
          /\ sleeps[i].delay = ConfiguredDelay
          /\ sleeps[i].after = i
          /\ trialLog[i] = "empty"
    /\ Len(sleeps) <= ConfiguredRetries
    /\ pc = "sleep" =>
          /\ Len(trialLog) = nTrials
          /\ trialLog[nTrials] = "empty"
          /\ nTrials <= ConfiguredRetries
          /\ Len(sleeps) = nTrials - 1
    /\ (/\ nTrials >= 1
        /\ Len(trialLog) = nTrials
        /\ trialLog[nTrials] = "empty"
        /\ nTrials <= ConfiguredRetries
        /\ pc \notin {"sleep", "cancelled"})
       => Len(sleeps) = nTrials
    /\ pc = "done" =>
          /\ Len(sleeps) = nTrials - 1
          /\ AllTrialsEmpty => Len(sleeps) = ConfiguredRetries

C14_Witness ==
    /\ pc = "done"
    /\ AllTrialsEmpty
    /\ ~config.present
    /\ sleeps = <<[delay |-> 60, after |-> 1], [delay |-> 60, after |-> 2],
                  [delay |-> 60, after |-> 3]>>
    /\ nTrials = 4

\* Neither the preferred identifier nor a configured fallback is a key of
\* the registry.
NothingResolves ==
    /\ Preferred(config) \notin _search_engine
    /\ \A k \in 1..Len(ConfiguredFallbacks) :
          ConfiguredFallbacks[k] \notin _search_engine

\* C15: when nothing resolves the order is empty, no engine is called, and
\* execute returns the empty ToolResult: no results and no engine.
C15_NoEngineEmptyOutcome ==
    (nTrials >= 1 /\ NothingResolves) =>
        /\ engine_order = <<>>
        /\ trialCalls = <<>>
        /\ invocation = NoInvocation
        /\ pc = "done" =>
              /\ retval.kind = "ToolResult"
              /\ retval.value.structured_data.results = <<>>
              /\ "engine" \notin DOMAIN retval.value.structured_data

\* C16: when the engine call of _perform_search_with_engine returns on
\* attempt n, after raising on the attempts before, the engine was called
\* exactly n <= 3 times, n - 1 backoff sleeps were taken (none for n = 1),
\* the returned links are the ones the trial works with, and no attempt or
\* sleep follows.
C16_ReturnOnAttemptN ==
    (invocation.status = "returned" /\ trialCalls # <<>>) =>
        LET n == invocation.calls
            before == Len(trialCalls) - n
        IN  /\ n \in 1..3
            /\ before >= 0
            /\ attempt_number = n
            /\ LastCall.attempt = n
            /\ LastCall.position = invocation.position
            /\ LastCall.result \in {"empty", "links"}
            /\ \A k \in 1..(n - 1) :
                  /\ trialCalls[before + k].result = "raise"
                  /\ trialCalls[before + k].attempt = k
                  /\ trialCalls[before + k].position = invocation.position
            /\ before > 0 => trialCalls[before].position < invocation.position
            /\ Len(invocation.delays) = n - 1
            /\ n = 1 => invocation.delays = <<>>
            /\ pc \notin {"call", "backoff"}
            /\ LastCall.result = "links" =>
                  /\ winner.position = invocation.position
                  /\ links.kind = "ToolResult"
                  /\ Len(links.value.structured_data.results) = Len(winner.links)

C16_Witness ==
    /\ invocation.status = "returned"
    /\ invocation.calls = 3
    /\ invocation.delays = <<1, 2>>
    /\ trialCalls # <<>>
    /\ LastCall.result = "links"
    /\ LastCall.attempt = 3

\* C17: the calls of a trial go through the resolved order from its first
\* engine on, one position at a time: a call is the next attempt on the
\* engine of the call before, which raised, or the first attempt on the
\* next engine of the order, the engine before having returned no links or
\* failed its last attempt.
C17_EnginesInResolvedOrder ==
    /\ pc \in {"call", "backoff"} => invocation.position = idx
    /\ \A i \in 1..Len(trialCalls) :
          LET c == trialCalls[i]
          IN  /\ c.position \in 1..Len(engine_order)
              /\ c.engine = engine_order[c.position]
              /\ i = 1 => (c.position = 1 /\ c.attempt = 1)
              /\ i > 1 =>
                    LET p == trialCalls[i - 1]
                    IN  \/ /\ c.position = p.position
                           /\ c.attempt = p.attempt + 1
                           /\ p.result = "raise"
                        \/ /\ c.position = p.position + 1
                           /\ c.attempt = 1
                           /\ \/ p.result = "empty"
                              \/ p.result = "raise" /\ p.attempt = 3

C17_Witness ==
    /\ Len(engine_order) = 3
    /\ Len(trialCalls) = 5
    /\ trialCalls[3].result = "raise"
    /\ trialCalls[4].result = "empty"
    /\ trialCalls[4].position = 2
    /\ trialCalls[5].position = 3

\* What the request has to return, given the configuration, its query and
\* the answers of the engines it called.
OwnOutcome ==
    IF winner.trial = nTrials /\ winner.links # <<>>
    THEN [kind |-> "ToolResult",
          value |-> SuccessResult(query, winner.engine, winner.links)]
    ELSE [kind |-> "list", value |-> <<>>]

C19_EmptyReturnNotRetried ==
    \A i \in 1..Len(trialCalls) :
        LET c == trialCalls[i]
        IN  c.result = "empty" =>
              /\ i < Len(trialCalls) =>
                    /\ trialCalls[i + 1].position = c.position + 1
                    /\ trialCalls[i + 1].attempt = 1
              /\ (i = Len(trialCalls) /\ Len(trialLog) < nTrials) =>
                    /\ idx = c.position + 1
                    /\ pc # "backoff"
                    /\ \/ pc = "engine"
                       \/ invocation.position = idx /\ invocation.calls = 0
              /\ (i = Len(trialCalls) /\ invocation.position = c.position) =>
                    /\ invocation.status = "returned"
                    /\ Len(invocation.delays) = c.attempt - 1
              /\ c.attempt = 1 =>
                    \A j \in 1..Len(trialCalls) :
                        trialCalls[j].position = c.position => j = i

C19_Witness ==
    /\ Len(trialCalls) = 2
    /\ trialCalls[1].result = "empty"
    /\ trialCalls[1].attempt = 1
    /\ trialCalls[2].position = 2
    /\ trialCalls[2].result = "empty"
    /\ invocation.delays = <<>>
    /\ pc = "engine"

\* C20: a request that is not cancelled, and whose engine calls all end,
\* returns; and it never makes more than (max_retries + 1) * (length of
\* the resolved order) * 3 engine calls.
C20_ReturnsWithinCallBound ==
    /\ [](totalCalls <= (ConfiguredRetries + 1) * Len(engine_order) * 3)
    /\ <>(pc = "done")

C20_Witness ==
    /\ pc = "done"
    /\ config.present
    /\ ConfiguredRetries = 1
    /\ Len(engine_order) = 2
    /\ totalCalls = 12

====
